---- MODULE Spec2Model ----
(***************************************************************************)
(* A model of the wishlist server (handlers of server.go as of the         *)
(* revision with invite codes and the admin RPC).                          *)
(*                                                                         *)
(* The durable state is the SQLite database (tables users, sessions,       *)
(* invite_codes, wishlist).  Every HTTP request runs on its own goroutine, *)
(* so handlers interleave at the granularity of SQL statements.  The       *)
(* storage engine is SQLite in its default rollback-journal mode, reached  *)
(* through database/sql (one connection per transaction):                  *)
(*   - BEGIN is deferred: it takes no lock;                                *)
(*   - the first read of a transaction takes a SHARED lock, held until     *)
(*     COMMIT or ROLLBACK;                                                 *)
(*   - the first write takes the RESERVED lock (one holder at most).  A    *)
(*     connection that holds no lock waits for it (busy handler); one that *)
(*     already holds SHARED gets SQLITE_BUSY at once, because waiting      *)
(*     could deadlock with the writer waiting for readers to leave;        *)
(*   - COMMIT of a writer waits until no other connection holds SHARED.    *)
(* Waiting is modelled as an action that is not enabled; the busy timeout  *)
(* (a real-time bound) is not modelled.  Uncommitted writes are invisible  *)
(* to other connections: they are applied to the tables at COMMIT.         *)
(***************************************************************************)
EXTENDS Integers, Sequences, FiniteSets, TLC

VARIABLES
    now,          \* time.Now(), in hours
    users,        \* table users
    sessions,     \* table sessions
    invite_codes, \* table invite_codes
    wishlist,     \* table wishlist
    rowSeq,       \* sqlite_sequence of wishlist (AUTOINCREMENT never reuses an id)
    issued,       \* [tokens, codes]: how many 32-byte random values rand.Read has produced
    procs,        \* the requests in flight: for each, its position and its locals
    last,         \* the request that completed last, and its response
    patchOk,      \* history: number of 200 responses to PATCH per <<row id, request seq>>
    signupLog,    \* history: <<invite code presented, user id>> of every committed signup
    comments,     \* table comments (the revision with /api/comments)
    commentSeq,   \* sqlite_sequence of comments
    run           \* func run: the interrupt context, the two servers, the wait group

vars == <<now, users, sessions, invite_codes, wishlist, rowSeq, issued, procs,
          last, patchOk, signupLog, comments, commentSeq, run>>

-----------------------------------------------------------------------------
(* Bounds of the model *)

MaxRows == 2       \* wishlist rows ever inserted
MaxSeq == 2        \* largest seq a PATCH request carries

Procs == {1, 2}    \* requests in flight at once

NULL == "NULL"     \* SQL NULL, JSON null, a nil *string

RowIds == 1..MaxRows

-----------------------------------------------------------------------------
(* Requests and responses *)

\* The Cookie header: absent, not base64url, or base64url of a token.
CookieNone == <<"none", 0>>
CookieBad == <<"bad", 0>>
EncodeToString(token) == <<"b64", token>>

DecodeString(value) ==
    IF value[1] = "b64" THEN [err |-> FALSE, bytes |-> value[2]]
    ELSE [err |-> TRUE, bytes |-> 0]

extractCookie(cookie) ==
    IF cookie = CookieNone THEN [bytes |-> 0, nil |-> TRUE]
    ELSE LET binaryCookie == DecodeString(cookie) IN
         IF binaryCookie.err THEN [bytes |-> 0, nil |-> TRUE]
         ELSE [bytes |-> binaryCookie.bytes, nil |-> FALSE]

Response(op, user, req, status, body) ==
    [op |-> op, user |-> user, req |-> req, status |-> status, body |-> body, at |-> now]

Error(msg) == [error |-> msg]

Idle == [op |-> "idle", pc |-> "idle"]

\* The deadline of the context run hands to httpServer.Shutdown, in seconds.
shutdownTimeout == 10

\* func run once both servers are serving: ctx is the context of
\* signal.NotifyContext, elapsed the seconds since Shutdown was called, wg the
\* counter of the wait group, returned whether run has returned to main.
Serving ==
    [ctx |-> "live", httpServer |-> "serving", grpcServer |-> "serving",
     elapsed |-> 0, wg |-> 2, returned |-> FALSE]

\* The server runs each request on a goroutine of its own; goroutines have no
\* identity, so a new request takes the first free slot.
\* Shutdown closes the listeners: from then on no request is accepted.
Accept(p) ==
    /\ run.httpServer = "serving"
    /\ procs[p] = Idle
    /\ \A q \in Procs : q < p => procs[q] # Idle

-----------------------------------------------------------------------------
(* The storage engine's locks, as held by the transactions in flight *)

HoldsShared(p) == procs[p].pc \in {"update", "delete"}

HoldsReserved(p) == procs[p].pc = "commit"

\* A write by a connection that already holds SHARED, while another connection
\* holds RESERVED: SQLITE_BUSY ("database is locked") without waiting.
SqliteBusy_NoLock(p) == FALSE
SqliteBusy(p) == \E q \in Procs \ {p} : HoldsReserved(q)

\* A write by a connection that holds no lock waits for RESERVED.
CanReserve(p) == \A q \in Procs \ {p} : ~HoldsReserved(q)

\* COMMIT waits for the other connections' SHARED locks to be released.
CanCommit_Always(p) == TRUE
CanCommit(p) == \A q \in Procs \ {p} : ~HoldsShared(q) /\ ~HoldsReserved(q)

-----------------------------------------------------------------------------
(* Auth gate *)

SessionExpired_Never(expiryTime) == FALSE
SessionExpired(expiryTime) == expiryTime < now

authenticateUser(cookieHeader) ==
    LET cookie == extractCookie(cookieHeader)
        rows == {s \in sessions : s.session_cookie = cookie.bytes}
    IN  IF cookie.nil
        THEN [status |-> 401, body |-> Error("missing session cookie"), id |-> 0]
        ELSE IF rows = {}
        THEN [status |-> 401, body |-> Error("no cookie in db"), id |-> 0]
        ELSE LET s == CHOOSE s \in rows : TRUE IN
             IF SessionExpired(s.expiry_time)
             THEN [status |-> 401, body |-> Error("expired cookie"), id |-> 0]
             ELSE [status |-> 0, body |-> Error(""), id |-> s.id]

-----------------------------------------------------------------------------
(* Wishlist: GET, POST, DELETE *)

Finish(p, resp) ==
    /\ procs' = [procs EXCEPT ![p] = Idle]
    /\ last' = resp

\* The rows of GET /api/wishlist as the handler returns them.
HideBuyerNotes_Never(queryUserId, userId, buyerNotes) == buyerNotes
HideBuyerNotes(queryUserId, userId, buyerNotes) ==
    IF queryUserId = userId THEN NULL ELSE buyerNotes

WishlistEntries(queryUserId, userId) ==
    { [id |-> r.id, seq |-> r.sequence_number, description |-> r.description,
       source |-> r.source, cost |-> r.cost, owner_notes |-> r.owner_notes,
       buyer_notes |-> HideBuyerNotes(queryUserId, userId, r.buyer_notes)]
      : r \in {w \in wishlist : w.user_id = queryUserId} }

\* userStr is the userId query parameter: <<"absent", 0>>, <<"bad", 0>> (does not
\* parse as an unsigned integer) or <<"id", n>>.
handleWishlistGet(p, req) ==
    /\ Accept(p)
    /\ LET auth == authenticateUser(req.cookie)
           userStr == req.userId
           queryUserId == IF userStr[1] = "absent" THEN auth.id ELSE userStr[2]
           owner == {u \in users : u.id = queryUserId}
       IN  last' =
             IF auth.status # 0
             THEN Response("wishlist_get", 0, req, auth.status, auth.body)
             ELSE IF ~req.json
             THEN Response("wishlist_get", auth.id, req, 415, Error(""))
             ELSE IF userStr[1] = "bad"
             THEN Response("wishlist_get", auth.id, req, 400,
                           Error("missing or malformed user parameter"))
             ELSE IF owner = {}
             THEN Response("wishlist_get", auth.id, req, 500, Error("sql: no rows in result set"))
             ELSE Response("wishlist_get", auth.id, req, 200,
                           [last |-> (CHOOSE u \in owner : TRUE).last_name,
                            entries |-> WishlistEntries(queryUserId, auth.id),
                            first |-> (CHOOSE u \in owner : TRUE).first_name])
    /\ UNCHANGED <<now, users, sessions, invite_codes, wishlist, rowSeq, issued,
                   procs, patchOk, signupLog,
                   comments, commentSeq, run>>

\* POST /api/wishlist: one INSERT in autocommit mode.  The statement takes the
\* RESERVED lock (waiting for it) and commits when the readers have left.
handleWishlistPost(p, req) ==
    /\ Accept(p)
    /\ LET auth == authenticateUser(req.cookie) IN
       IF auth.status # 0
       THEN /\ last' = Response("wishlist_post", 0, req, auth.status, auth.body)
            /\ UNCHANGED procs
       ELSE IF ~req.json
       THEN /\ last' = Response("wishlist_post", auth.id, req, 415, Error(""))
            /\ UNCHANGED procs
       ELSE /\ rowSeq < MaxRows
            /\ CanReserve(p)
            /\ procs' = [procs EXCEPT ![p] =
                           [op |-> "wishlist_post", user |-> auth.id, req |-> req,
                            pc |-> "commit"]]
            /\ UNCHANGED last
    /\ UNCHANGED <<now, users, sessions, invite_codes, wishlist, rowSeq, issued,
                   patchOk, signupLog,
                   comments, commentSeq, run>>

NewWishlistRow_SeqZero(lastID, userId, reqBody) ==
    [id |-> lastID, sequence_number |-> 0, description |-> reqBody.description,
     source |-> reqBody.source, cost |-> reqBody.cost,
     owner_notes |-> reqBody.owner_notes, buyer_notes |-> NULL, user_id |-> userId]
NewWishlistRow_OtherOwner(lastID, userId, reqBody) ==
    [id |-> lastID, sequence_number |-> 1, description |-> reqBody.description,
     source |-> reqBody.source, cost |-> reqBody.cost,
     owner_notes |-> reqBody.owner_notes, buyer_notes |-> NULL,
     user_id |-> (CHOOSE u \in users : u.id # userId).id]
NewWishlistRow(lastID, userId, reqBody) ==
    [id |-> lastID, sequence_number |-> 1, description |-> reqBody.description,
     source |-> reqBody.source, cost |-> reqBody.cost,
     owner_notes |-> reqBody.owner_notes, buyer_notes |-> NULL, user_id |-> userId]

handleWishlistPostCommit(p) ==
    /\ procs[p].op = "wishlist_post"
    /\ procs[p].pc = "commit"
    /\ CanCommit(p)
    /\ LET lastID == rowSeq + 1 IN
       /\ wishlist' = wishlist \cup {NewWishlistRow(lastID, procs[p].user, procs[p].req.body)}
       /\ rowSeq' = lastID
       /\ Finish(p, Response("wishlist_post", procs[p].user, procs[p].req, 200, [id |-> lastID]))
    /\ UNCHANGED <<now, users, sessions, invite_codes, issued, patchOk, signupLog,
                   comments, commentSeq, run>>

\* DELETE /api/wishlist: BEGIN; SELECT COUNT(*) of the listed rows of other users.
NotOwnedCount_OwnOnly(ids, userId) == 0
NotOwnedCount(ids, userId) ==
    Cardinality({r \in wishlist : r.id \in ids /\ r.user_id # userId})

handleWishlistDelete(p, req) ==
    /\ Accept(p)
    /\ LET auth == authenticateUser(req.cookie) IN
       IF auth.status # 0
       THEN /\ last' = Response("wishlist_delete", 0, req, auth.status, auth.body)
            /\ UNCHANGED procs
       ELSE IF ~req.json
       THEN /\ last' = Response("wishlist_delete", auth.id, req, 415, Error(""))
            /\ UNCHANGED procs
       ELSE IF NotOwnedCount(req.ids, auth.id) # 0
       THEN /\ last' = Response("wishlist_delete", auth.id, req, 401,
                                Error("Attempt to delete wishlist rows not owned by user"))
            /\ UNCHANGED procs
       ELSE /\ procs' = [procs EXCEPT ![p] =
                           [op |-> "wishlist_delete", user |-> auth.id, req |-> req,
                            pc |-> "delete"]]
            /\ UNCHANGED last
    /\ UNCHANGED <<now, users, sessions, invite_codes, wishlist, rowSeq, issued,
                   patchOk, signupLog,
                   comments, commentSeq, run>>

\* DELETE FROM wishlist WHERE id IN (...) AND user_id == ?
handleWishlistDeleteExec(p) ==
    /\ procs[p].op = "wishlist_delete"
    /\ procs[p].pc = "delete"
    /\ IF SqliteBusy(p)
       THEN Finish(p, Response("wishlist_delete", procs[p].user, procs[p].req, 500,
                               Error("database is locked")))
       ELSE /\ procs' = [procs EXCEPT ![p].pc = "commit"]
            /\ UNCHANGED last
    /\ UNCHANGED <<now, users, sessions, invite_codes, wishlist, rowSeq, issued,
                   patchOk, signupLog,
                   comments, commentSeq, run>>

DeletedRows_AllOrNone(ids, userId) ==
    IF \A i \in ids : \E r \in wishlist : r.id = i
    THEN {r \in wishlist : r.id \in ids /\ r.user_id = userId}
    ELSE {}
DeletedRows(ids, userId) == {r \in wishlist : r.id \in ids /\ r.user_id = userId}

\* result.RowsAffected() of the sqlite3 driver returns a nil error.
DeleteStatus(rowsAffectedErr, rowsAffected) ==
    IF rowsAffectedErr /\ rowsAffected = 0 THEN 404 ELSE 200

\* FOREIGN KEY (wishlist_item_id) REFERENCES wishlist (id) ON DELETE CASCADE, of
\* the revision with table comments.  PRAGMA foreign_keys = ON was executed on
\* one connection of the pool; the connection at hand may or may not enforce it.
CascadeComments(rows, gone, foreignKeys) ==
    IF foreignKeys THEN {c \in rows : \A r \in gone : c.wishlist_item_id # r.id}
    ELSE rows

handleWishlistDeleteCommit(p) ==
    /\ procs[p].op = "wishlist_delete"
    /\ procs[p].pc = "commit"
    /\ CanCommit(p)
    /\ LET gone == DeletedRows(procs[p].req.ids, procs[p].user)
           status == DeleteStatus(FALSE, Cardinality(gone))
       IN  /\ wishlist' = wishlist \ gone
           /\ \E foreignKeys \in BOOLEAN :
                 comments' = CascadeComments(comments, gone, foreignKeys)
           /\ Finish(p, Response("wishlist_delete", procs[p].user, procs[p].req, status,
                                 IF status = 200 THEN Error("") ELSE Error("non-existent row")))
    /\ UNCHANGED <<now, users, sessions, invite_codes, rowSeq, issued, patchOk, signupLog,
                   commentSeq, run>>

-----------------------------------------------------------------------------
(* Comments: POST and DELETE (the revision of the server with /api/comments) *)

MaxComments == 2   \* comments ever inserted

\* The comment row INSERT INTO comments(wishlist_item_id, user_id, comment) stores.
NewComment_OnOwnRow(lastID, wishlistItemId, userId, comment) ==
    [id |-> lastID, user_id |-> (CHOOSE r \in wishlist : r.id = wishlistItemId).user_id,
     comment |-> comment,
     wishlist_item_id |-> wishlistItemId]
NewComment(lastID, wishlistItemId, userId, comment) ==
    [id |-> lastID, user_id |-> userId, comment |-> comment,
     wishlist_item_id |-> wishlistItemId]

\* "can't comment on your own wishlist"
OwnRow_Never(wishlistRowUser, id) == FALSE
OwnRow(wishlistRowUser, id) == wishlistRowUser = id

\* handleComments and handleCommentPost down to the SELECT user_id FROM wishlist,
\* a statement of its own; the INSERT follows outside any transaction.
handleCommentPost(p, req) ==
    /\ Accept(p)
    /\ LET auth == authenticateUser(req.cookie)
           rows == {r \in wishlist : r.id = req.id}
       IN
       IF auth.status # 0
       THEN /\ last' = Response("comment_post", 0, req, auth.status, auth.body)
            /\ UNCHANGED procs
       ELSE IF ~req.json
       THEN /\ last' = Response("comment_post", auth.id, req, 415, Error(""))
            /\ UNCHANGED procs
       ELSE IF req.comment = "" \/ req.id = 0
       THEN /\ last' = Response("comment_post", auth.id, req, 400,
                                Error("Bad Request: Malformed JSON"))
            /\ UNCHANGED procs
       ELSE IF rows = {}
       THEN /\ last' = Response("comment_post", auth.id, req, 500,
                                Error("sql: no rows in result set"))
            /\ UNCHANGED procs
       ELSE IF OwnRow((CHOOSE r \in rows : TRUE).user_id, auth.id)
       THEN /\ last' = Response("comment_post", auth.id, req, 401,
                                Error("can't comment on your own wishlist"))
            /\ UNCHANGED procs
       ELSE /\ commentSeq < MaxComments
            /\ procs' = [procs EXCEPT ![p] =
                           [op |-> "comment_post", user |-> auth.id, req |-> req,
                            pc |-> "insert"]]
            /\ UNCHANGED last
    /\ UNCHANGED <<now, users, sessions, invite_codes, wishlist, rowSeq, issued,
                   patchOk, signupLog, comments, commentSeq, run>>

\* The INSERT takes the write lock, waiting for it.
handleCommentPostExec(p) ==
    /\ procs[p].op = "comment_post"
    /\ procs[p].pc = "insert"
    /\ CanReserve(p)
    /\ procs' = [procs EXCEPT ![p].pc = "commit"]
    /\ UNCHANGED <<now, users, sessions, invite_codes, wishlist, rowSeq, issued, last,
                   patchOk, signupLog, comments, commentSeq, run>>

\* The INSERT commits.  foreignKeys: whether the connection enforces them; with
\* them, a comment on a row that has been deleted meanwhile is refused.
handleCommentPostCommit(p, foreignKeys) ==
    /\ procs[p].op = "comment_post"
    /\ procs[p].pc = "commit"
    /\ CanCommit(p)
    /\ IF foreignKeys /\ \A r \in wishlist : r.id # procs[p].req.id
       THEN /\ Finish(p, Response("comment_post", procs[p].user, procs[p].req, 500,
                                  Error("FOREIGN KEY constraint failed")))
            /\ UNCHANGED <<comments, commentSeq>>
       ELSE /\ comments' = comments \cup
                   {NewComment(commentSeq + 1, procs[p].req.id, procs[p].user,
                               procs[p].req.comment)}
            /\ commentSeq' = commentSeq + 1
            /\ Finish(p, Response("comment_post", procs[p].user, procs[p].req, 200, Error("")))
    /\ UNCHANGED <<now, users, sessions, invite_codes, wishlist, rowSeq, issued,
                   patchOk, signupLog, run>>

\* handleComments and handleCommentDelete down to the DELETE, which takes the
\* write lock, waiting for it.
handleCommentDelete(p, req) ==
    /\ Accept(p)
    /\ LET auth == authenticateUser(req.cookie) IN
       IF auth.status # 0
       THEN /\ last' = Response("comment_delete", 0, req, auth.status, auth.body)
            /\ UNCHANGED procs
       ELSE IF ~req.json
       THEN /\ last' = Response("comment_delete", auth.id, req, 415, Error(""))
            /\ UNCHANGED procs
       ELSE /\ CanReserve(p)
            /\ procs' = [procs EXCEPT ![p] =
                           [op |-> "comment_delete", user |-> auth.id, req |-> req,
                            pc |-> "commit"]]
            /\ UNCHANGED last
    /\ UNCHANGED <<now, users, sessions, invite_codes, wishlist, rowSeq, issued,
                   patchOk, signupLog, comments, commentSeq, run>>

\* DELETE FROM comments WHERE id == ? AND user_id == ?
DeletedComments_AnyAuthor(rows, id, userId) == {c \in rows : c.id = id}
DeletedComments(rows, id, userId) == {c \in rows : c.id = id /\ c.user_id = userId}

\* result.RowsAffected() of the sqlite3 driver returns a nil error.
CommentDeleteStatus(rowsAffectedErr, rowsAffected) ==
    IF rowsAffectedErr /\ rowsAffected = 0 THEN 401
    ELSE IF rowsAffectedErr THEN 500
    ELSE 200

handleCommentDeleteCommit(p) ==
    /\ procs[p].op = "comment_delete"
    /\ procs[p].pc = "commit"
    /\ CanCommit(p)
    /\ LET gone == DeletedComments(comments, procs[p].req.id, procs[p].user)
           status == CommentDeleteStatus(FALSE, Cardinality(gone))
       IN  /\ comments' = comments \ gone
           /\ Finish(p, Response("comment_delete", procs[p].user, procs[p].req, status,
                                 IF status = 200 THEN Error("") ELSE Error("user id mismatch")))
    /\ UNCHANGED <<now, users, sessions, invite_codes, wishlist, rowSeq, issued,
                   patchOk, signupLog, commentSeq, run>>

-----------------------------------------------------------------------------
(* Wishlist: PATCH (optimistic update gated by the sequence number) *)

SeqMatches_Always(sequenceNumber, reqSeq) == TRUE
SeqMatches(sequenceNumber, reqSeq) == sequenceNumber = reqSeq

OwnerFieldsAbsent(req) ==
    req.description = NULL /\ req.source = NULL /\ req.cost = NULL /\ req.owner_notes = NULL

\* The role check: "" when the request may go on, else the error message.
RoleCheck_Allow(rowUserId, userId, req) == ""
RoleCheck(rowUserId, userId, req) ==
    IF rowUserId = userId
    THEN IF req.buyer_notes # NULL THEN "wishlist owner can not edit buyer notes"
         ELSE IF OwnerFieldsAbsent(req) THEN "must provide something to patch"
         ELSE ""
    ELSE IF ~OwnerFieldsAbsent(req) THEN "non-owner can only edit buyer notes"
         ELSE IF req.buyer_notes = NULL THEN "must provide something to patch"
         ELSE ""

\* Id and Seq are uint64 struct fields: a key absent from the body leaves 0.
MissingIdOrSeq_Never(req) == FALSE
MissingIdOrSeq(req) == req.id = 0 \/ req.seq = 0

\* From decoding the body to the role check: the response that ends the request,
\* or status 0 when the handler goes on to the UPDATE.
PatchCheck_RoleFirst(userId, req) ==
    IF MissingIdOrSeq(req)
    THEN [status |-> 400, body |-> Error("missing id or seq")]
    ELSE LET rows == {r \in wishlist : r.id = req.id} IN
         IF rows = {}
         THEN [status |-> 500, body |-> Error("error loading row")]
         ELSE LET row == CHOOSE r \in rows : TRUE IN
              IF RoleCheck(row.user_id, userId, req) # ""
              THEN [status |-> 400, body |-> Error(RoleCheck(row.user_id, userId, req))]
              ELSE IF ~SeqMatches(row.sequence_number, req.seq)
              THEN [status |-> 409,
                    body |-> [error |-> "client seq does not match server seq, try again",
                              client_seq |-> req.seq, server_seq |-> row.sequence_number]]
              ELSE [status |-> 0, body |-> Error("")]
PatchCheck(userId, req) ==
    IF MissingIdOrSeq(req)
    THEN [status |-> 400, body |-> Error("missing id or seq")]
    ELSE LET rows == {r \in wishlist : r.id = req.id} IN
         IF rows = {}
         THEN [status |-> 500, body |-> Error("error loading row")]
         ELSE LET row == CHOOSE r \in rows : TRUE IN
              IF ~SeqMatches(row.sequence_number, req.seq)
              THEN [status |-> 409,
                    body |-> [error |-> "client seq does not match server seq, try again",
                              client_seq |-> req.seq, server_seq |-> row.sequence_number]]
              ELSE IF RoleCheck(row.user_id, userId, req) # ""
              THEN [status |-> 400, body |-> Error(RoleCheck(row.user_id, userId, req))]
              ELSE [status |-> 0, body |-> Error("")]

\* BEGIN; SELECT user_id,sequence_number FROM wishlist WHERE id == ?; the checks.
handleWishlistPatch(p, cookie, req) ==
    /\ Accept(p)
    /\ LET auth == authenticateUser(cookie)
           check == PatchCheck(auth.id, req)
       IN  IF auth.status # 0
           THEN /\ last' = Response("wishlist_patch", 0, req, auth.status, auth.body)
                /\ UNCHANGED procs
           ELSE IF check.status # 0
           THEN /\ last' = Response("wishlist_patch", auth.id, req, check.status, check.body)
                /\ UNCHANGED procs
           ELSE /\ procs' = [procs EXCEPT ![p] =
                               [op |-> "wishlist_patch", user |-> auth.id, req |-> req,
                                pc |-> "update"]]
                /\ UNCHANGED last
    /\ UNCHANGED <<now, users, sessions, invite_codes, wishlist, rowSeq, issued,
                   patchOk, signupLog,
                   comments, commentSeq, run>>

\* UPDATE wishlist SET <the fields present>, sequence_number = ? WHERE id = ?
handleWishlistPatchExec(p) ==
    /\ procs[p].op = "wishlist_patch"
    /\ procs[p].pc = "update"
    /\ IF SqliteBusy(p)
       THEN Finish(p, Response("wishlist_patch", procs[p].user, procs[p].req, 500,
                               Error("database is locked")))
       ELSE /\ procs' = [procs EXCEPT ![p].pc = "commit"]
            /\ UNCHANGED last
    /\ UNCHANGED <<now, users, sessions, invite_codes, wishlist, rowSeq, issued,
                   patchOk, signupLog,
                   comments, commentSeq, run>>

SetField_Always(requestField, column) == requestField
SetField(requestField, column) == IF requestField # NULL THEN requestField ELSE column

UpdatedRow_DescriptionOnly(r, req) ==
    [r EXCEPT !.description = SetField(req.description, @),
              !.sequence_number = req.seq + 1]
UpdatedRow(r, req) ==
    [r EXCEPT !.description = SetField(req.description, @),
              !.source = SetField(req.source, @),
              !.cost = SetField(req.cost, @),
              !.owner_notes = SetField(req.owner_notes, @),
              !.buyer_notes = SetField(req.buyer_notes, @),
              !.sequence_number = req.seq + 1]

ApplyPatch(rows, req) == {IF r.id = req.id THEN UpdatedRow(r, req) ELSE r : r \in rows}

handleWishlistPatchCommit(p) ==
    /\ procs[p].op = "wishlist_patch"
    /\ procs[p].pc = "commit"
    /\ CanCommit(p)
    /\ wishlist' = ApplyPatch(wishlist, procs[p].req)
    /\ patchOk' = [patchOk EXCEPT ![<<procs[p].req.id, procs[p].req.seq>>] = @ + 1]
    /\ Finish(p, Response("wishlist_patch", procs[p].user, procs[p].req, 200, Error("")))
    /\ UNCHANGED <<now, users, sessions, invite_codes, rowSeq, issued, signupLog,
                   comments, commentSeq, run>>

-----------------------------------------------------------------------------
(* The wishlist routes, served to two signed-up users with live sessions *)

maxAgeHours == 7 * 24

HashEncoded(password) == <<"argon2id", password>>

TestUsers ==
    { [id |-> 1, last_name |-> "cool", first_name |-> "joe", email |-> "joe@x",
       password_hash |-> HashEncoded("pw1")],
      [id |-> 2, last_name |-> "cool", first_name |-> "ann", email |-> "ann@x",
       password_hash |-> HashEncoded("pw2")] }

NoResponse == Response("none", 0, [none |-> TRUE], 0, Error(""))

EmptyTables ==
    /\ now = 0
    /\ users = TestUsers
    /\ sessions = {[session_cookie |-> u.id, id |-> u.id, expiry_time |-> maxAgeHours]
                   : u \in TestUsers}
    /\ invite_codes = {}
    /\ issued = [tokens |-> 2, codes |-> 2]
    /\ procs = [p \in Procs |-> Idle]
    /\ last = NoResponse
    /\ patchOk = [k \in (0..MaxRows) \X (0..MaxSeq) |-> 0]
    /\ signupLog = {<<u.id, u.id>> : u \in TestUsers}
    /\ comments = {}
    /\ commentSeq = 0
    /\ run = Serving

WishlistCookies == {CookieNone, EncodeToString(1), EncodeToString(2)}

UserIdParams == {<<"absent", 0>>, <<"id", 1>>, <<"id", 2>>}

PostBodies ==
    {[description |-> "old", source |-> "old", cost |-> "old", owner_notes |-> "old"]}

PatchBodies ==
    { [description |-> "new", source |-> NULL, cost |-> NULL, owner_notes |-> NULL,
       buyer_notes |-> NULL],
      [description |-> NULL, source |-> "new", cost |-> "new", owner_notes |-> "new",
       buyer_notes |-> NULL],
      [description |-> NULL, source |-> NULL, cost |-> NULL, owner_notes |-> NULL,
       buyer_notes |-> "note"],
      [description |-> "new", source |-> NULL, cost |-> NULL, owner_notes |-> NULL,
       buyer_notes |-> "note"],
      [description |-> NULL, source |-> NULL, cost |-> NULL, owner_notes |-> NULL,
       buyer_notes |-> NULL] }

PatchRequest(id, seq, b) ==
    [id |-> id, seq |-> seq, description |-> b.description, source |-> b.source,
     cost |-> b.cost, owner_notes |-> b.owner_notes, buyer_notes |-> b.buyer_notes]

\* PATCH and GET on the one row user 1 has posted.
InitPatch ==
    /\ EmptyTables
    /\ wishlist = {NewWishlistRow(1, 1, CHOOSE b \in PostBodies : TRUE)}
    /\ rowSeq = 1

NextPatch ==
    \/ \E p \in Procs, c \in WishlistCookies, u \in UserIdParams :
          handleWishlistGet(p, [cookie |-> c, userId |-> u, json |-> TRUE])
    \/ \E p \in Procs, c \in WishlistCookies, id \in 0..MaxRows, seq \in 0..MaxSeq,
          b \in PatchBodies :
          handleWishlistPatch(p, c, PatchRequest(id, seq, b))
    \/ \E p \in Procs : handleWishlistPatchExec(p)
    \/ \E p \in Procs : handleWishlistPatchCommit(p)

SpecPatch == InitPatch /\ [][NextPatch]_vars

\* POST, DELETE and GET, starting from an empty wishlist table.
InitDelete ==
    /\ EmptyTables
    /\ wishlist = {}
    /\ rowSeq = 0

NextDelete ==
    \/ \E p \in Procs, c \in WishlistCookies, u \in UserIdParams :
          handleWishlistGet(p, [cookie |-> c, userId |-> u, json |-> TRUE])
    \/ \E p \in Procs, c \in WishlistCookies, b \in PostBodies :
          handleWishlistPost(p, [cookie |-> c, body |-> b, json |-> TRUE])
    \/ \E p \in Procs : handleWishlistPostCommit(p)
    \/ \E p \in Procs, c \in WishlistCookies, ids \in SUBSET RowIds :
          handleWishlistDelete(p, [cookie |-> c, json |-> TRUE, ids |-> ids])
    \/ \E p \in Procs : handleWishlistDeleteExec(p)
    \/ \E p \in Procs : handleWishlistDeleteCommit(p)

SpecDelete == InitDelete /\ [][NextDelete]_vars

\* The lifetime of rows: POST by either user, then PATCH of buyer notes by either
\* user (refused for the owner of the row).
SessionCookies == {EncodeToString(u.id) : u \in TestUsers}

BuyerBodies == {b \in PatchBodies : b.buyer_notes # NULL /\ b.description = NULL}

NextRows ==
    \/ \E p \in Procs, c \in SessionCookies, b \in PostBodies :
          handleWishlistPost(p, [cookie |-> c, body |-> b, json |-> TRUE])
    \/ \E p \in Procs : handleWishlistPostCommit(p)
    \/ \E p \in Procs, c \in SessionCookies, id \in RowIds, seq \in 1..MaxSeq,
          b \in BuyerBodies :
          handleWishlistPatch(p, c, PatchRequest(id, seq, b))
    \/ \E p \in Procs : handleWishlistPatchExec(p)
    \/ \E p \in Procs : handleWishlistPatchCommit(p)

SpecRows == InitDelete /\ [][NextRows]_vars

\* PATCH and DELETE of the one row user 1 has posted, by its owner and by the
\* other user, two requests at a time.
OwnerBodies == {b \in PatchBodies : b.description # NULL /\ b.buyer_notes = NULL
                                     /\ b.source = NULL}

NextPatchDelete ==
    \/ \E p \in Procs, c \in SessionCookies, seq \in 1..MaxSeq,
          b \in OwnerBodies \cup BuyerBodies :
          handleWishlistPatch(p, c, PatchRequest(1, seq, b))
    \/ \E p \in Procs : handleWishlistPatchExec(p)
    \/ \E p \in Procs : handleWishlistPatchCommit(p)
    \/ \E p \in Procs, c \in SessionCookies :
          handleWishlistDelete(p, [cookie |-> c, json |-> TRUE, ids |-> {1}])
    \/ \E p \in Procs : handleWishlistDeleteExec(p)
    \/ \E p \in Procs : handleWishlistDeleteCommit(p)

SpecPatchDelete == InitPatch /\ [][NextPatchDelete]_vars

\* Comments on the rows of the two users: each has posted one row, which its
\* owner may delete.
InitComments ==
    /\ EmptyTables
    /\ wishlist = {NewWishlistRow(u.id, u.id, CHOOSE b \in PostBodies : TRUE) : u \in TestUsers}
    /\ rowSeq = 2

\* The ids of the rows of InitComments.
PostedRowIds == {u.id : u \in TestUsers}

CommentRequest(cookie, json, id, comment) ==
    [cookie |-> cookie, id |-> id, json |-> json, comment |-> comment]

CommentRequests ==
    {CommentRequest(c, TRUE, id, "nice") : c \in SessionCookies, id \in PostedRowIds}
    \cup { CommentRequest(CookieNone, TRUE, 1, "nice"),
           CommentRequest(EncodeToString(1), FALSE, 2, "nice"),
           CommentRequest(EncodeToString(1), TRUE, 2, ""),
           CommentRequest(EncodeToString(1), TRUE, 0, "nice") }

CommentDeleteRequests ==
    {[cookie |-> c, id |-> id, json |-> TRUE] : c \in SessionCookies, id \in 1..MaxComments}
    \cup { [cookie |-> CookieNone, id |-> 1, json |-> TRUE],
           [cookie |-> EncodeToString(1), id |-> 1, json |-> FALSE] }

NextComments ==
    \/ \E p \in Procs, req \in CommentRequests : handleCommentPost(p, req)
    \/ \E p \in Procs : handleCommentPostExec(p)
    \/ \E p \in Procs, foreignKeys \in BOOLEAN : handleCommentPostCommit(p, foreignKeys)
    \/ \E p \in Procs, req \in CommentDeleteRequests : handleCommentDelete(p, req)
    \/ \E p \in Procs : handleCommentDeleteCommit(p)
    \/ \E p \in Procs, c \in SessionCookies, id \in PostedRowIds :
          handleWishlistDelete(p, [cookie |-> c, json |-> TRUE, ids |-> {id}])
    \/ \E p \in Procs : handleWishlistDeleteExec(p)
    \/ \E p \in Procs : handleWishlistDeleteCommit(p)

SpecComments == InitComments /\ [][NextComments]_vars

-----------------------------------------------------------------------------
(* Sessions: createSession, login, logout, GET /api/session *)

MaxSessions == 2   \* sessions ever created by login
MaxWeeks == 1      \* the clock stops after MaxWeeks session lifetimes (plus an hour)

EmptyHash == <<"", "">>     \* string(encoded) of a nil hash

\* argon2.VerifyEncoded: an error for a hash that does not decode, else whether the
\* password matches.
VerifyEncoded(password, passwordHash) ==
    IF passwordHash = EmptyHash THEN [err |-> TRUE, ok |-> FALSE]
    ELSE [err |-> FALSE, ok |-> passwordHash = HashEncoded(password)]

\* rand.Read(sessionCookie): 32 random bytes, modelled as a value never drawn before.
NewToken == issued.tokens + 1

NewSession_NoLifetime(sessionCookie, userId) ==
    [session_cookie |-> sessionCookie, id |-> userId, expiry_time |-> now]
NewSession(sessionCookie, userId) ==
    [session_cookie |-> sessionCookie, id |-> userId, expiry_time |-> now + maxAgeHours]

\* The cookie createSession sets on the response.
SessionCookie(sessionCookie) ==
    [value |-> EncodeToString(sessionCookie), expires |-> now + maxAgeHours]

NoSetCookie == [value |-> CookieNone, expires |-> 0]

\* An INSERT, UPDATE or DELETE in autocommit mode waits for the write lock and for
\* the readers to leave.
CanWrite == \A q \in Procs : ~HoldsShared(q) /\ ~HoldsReserved(q)

LoginUnknownEmail_Distinct == [status |-> 404, body |-> Error("unknown user")]
LoginUnknownEmail == [status |-> 401, body |-> Error("invalid username or password")]

LoginBadPassword == [status |-> 401, body |-> Error("invalid username or password")]

\* handleSessionPost up to createSession: the response that ends the request, or
\* status 0 and the user row when the password verifies.
LoginCheck(req) ==
    LET rows == {u \in users : u.email = req.email} IN
    IF ~req.json THEN [status |-> 415, body |-> Error("")]
    ELSE IF req.email = "" \/ req.password = ""
    THEN [status |-> 400, body |-> Error("Bad Request: Missing fields")]
    ELSE IF rows = {} THEN LoginUnknownEmail
    ELSE LET u == CHOOSE u \in rows : TRUE
             v == VerifyEncoded(req.password, u.password_hash)
         IN  IF v.err \/ ~v.ok THEN LoginBadPassword
             ELSE [status |-> 0, body |-> [last |-> u.last_name, id |-> u.id,
                                           first |-> u.first_name]]

\* insertErr: the INSERT INTO sessions of createSession fails.
handleSessionPost(p, req, insertErr) ==
    /\ Accept(p)
    /\ LET check == LoginCheck(req) IN
       IF check.status # 0
       THEN /\ last' = Response("login", 0, req, check.status, check.body)
            /\ UNCHANGED <<sessions, issued>>
       ELSE IF insertErr
       THEN /\ last' = Response("login", 0, req, 500, Error("error creating session"))
            /\ UNCHANGED <<sessions, issued>>
       ELSE /\ issued.tokens < MaxSessions
            /\ CanWrite
            /\ sessions' = sessions \cup {NewSession(NewToken, check.body.id)}
            /\ issued' = [issued EXCEPT !.tokens = NewToken]
            /\ last' = Response("login", check.body.id, req, 200,
                                [last |-> check.body.last,
                                 cookie |-> SessionCookie(NewToken),
                                 id |-> check.body.id, first |-> check.body.first])
    /\ UNCHANGED <<now, users, invite_codes, wishlist, rowSeq, procs, patchOk, signupLog,
                   comments, commentSeq, run>>

\* DELETE FROM sessions WHERE session_cookie = ? RETURNING id
DeleteSession_Keep(rows, sessionCookie) == rows
DeleteSession_OfUser(rows, sessionCookie) ==
    {s \in rows : \A t \in rows : t.session_cookie = sessionCookie => s.id # t.id}
DeleteSession(rows, sessionCookie) == {s \in rows : s.session_cookie # sessionCookie}

handleSessionDelete(p, req) ==
    /\ Accept(p)
    /\ LET cookie == extractCookie(req.cookie) IN
       IF cookie.nil
       THEN UNCHANGED sessions
       ELSE /\ CanWrite
            /\ sessions' = DeleteSession(sessions, cookie.bytes)
    /\ last' = Response("logout", 0, req, 200, Error(""))
    /\ UNCHANGED <<now, users, invite_codes, wishlist, rowSeq, issued, procs, patchOk,
                   signupLog,
                   comments, commentSeq, run>>

\* GET /api/session behind authMiddlewareNew: the handler runs with the user id
\* that authenticateUser returned.
handleSessionGet(p, req) ==
    /\ Accept(p)
    /\ LET auth == authenticateUser(req.cookie)
           rows == {u \in users : u.id = auth.id}
       IN  last' =
             IF auth.status # 0
             THEN Response("session_get", 0, req, auth.status, auth.body)
             ELSE IF rows = {}
             THEN Response("session_get", auth.id, req, 500, Error("sql: no rows in result set"))
             ELSE Response("session_get", auth.id, req, 200,
                           [last |-> (CHOOSE u \in rows : TRUE).last_name, id |-> auth.id,
                            first |-> (CHOOSE u \in rows : TRUE).first_name])
    /\ UNCHANGED <<now, users, sessions, invite_codes, wishlist, rowSeq, issued, procs,
                   patchOk, signupLog,
                   comments, commentSeq, run>>

\* Time passes: to the instant a session created at an earlier modelled instant
\* expires (a lifetime later), or one hour past it.
Tick(d) ==
    /\ now + d <= MaxWeeks * maxAgeHours + 1
    /\ d = 1 => \E k \in 1..MaxWeeks : now = k * maxAgeHours
    /\ now' = now + d
    /\ UNCHANGED <<users, sessions, invite_codes, wishlist, rowSeq, issued, procs, last,
                   patchOk, signupLog,
                   comments, commentSeq, run>>

InitSession ==
    /\ now = 0
    /\ users = TestUsers
    /\ sessions = {}
    /\ invite_codes = {}
    /\ wishlist = {}
    /\ rowSeq = 0
    /\ issued = [tokens |-> 0, codes |-> 2]
    /\ procs = [p \in Procs |-> Idle]
    /\ last = NoResponse
    /\ patchOk = [k \in (0..MaxRows) \X (0..MaxSeq) |-> 0]
    /\ signupLog = {<<u.id, u.id>> : u \in TestUsers}
    /\ comments = {}
    /\ commentSeq = 0
    /\ run = Serving

LoginEmails == {"joe@x", "ann@x", "nobody@x", ""}

LoginPasswords == {"pw1", "pw2", ""}

\* Cookie headers: none, not base64url, the empty token, and every token the
\* server can issue plus one it never issues.
Cookies == {CookieNone, CookieBad} \cup {EncodeToString(t) : t \in 0..(MaxSessions + 1)}

NextSession ==
    \/ \E p \in Procs, e \in LoginEmails, pw \in LoginPasswords, insertErr \in BOOLEAN :
          handleSessionPost(p, [json |-> TRUE, password |-> pw, email |-> e], insertErr)
    \/ \E p \in Procs, c \in Cookies : handleSessionDelete(p, [cookie |-> c])
    \/ \E p \in Procs, c \in Cookies : handleSessionGet(p, [cookie |-> c])
    \/ \E d \in {1, maxAgeHours} : Tick(d)

SpecSession == InitSession /\ [][NextSession]_vars

-----------------------------------------------------------------------------
(* Invite codes and signup *)

MaxCodes == 2      \* invite codes ever generated

\* generateInviteCodeHelper: a fresh random code, good for 7 days.
GenerateInviteCode ==
    /\ run.grpcServer = "serving"
    /\ issued.codes < MaxCodes
    /\ CanWrite
    /\ invite_codes' = invite_codes \cup
          {[expiry_time |-> now + 7 * 24, invite_code |-> issued.codes + 1]}
    /\ issued' = [issued EXCEPT !.codes = @ + 1]
    /\ UNCHANGED <<now, users, sessions, wishlist, rowSeq, procs, last, patchOk, signupLog,
                   comments, commentSeq, run>>

\* mail.ParseAddress
ParseAddress(email) == [err |-> email \notin {"joe@x", "ann@x", "nobody@x", "A*500@x"}]

\* http.Error after the header has been written leaves the status as it is.
WriteHeader(written, status) == IF written # 0 THEN written ELSE status

\* The status of a handler that returns: 200 unless a header was written.
Returned(written) == WriteHeader(written, 200)

\* decoder.Decode with DisallowUnknownFields: an error for a body that is not a
\* JSON object of the expected shape, or that has a field SignupRequest lacks.
\* A field the body leaves out decodes to the empty string.
SignupDecode(req) == [err |-> ~req.wellFormed \/ req.extra # {}]

SignupMissingFields_FirstOnly(req) == req.first = ""
SignupMissingFields(req) ==
    req.first = "" \/ req.last = "" \/ req.email = "" \/ req.password = ""
        \/ req.invite_code = CookieNone

\* handleSignup from the Content-Type check to decoding the invite code.
SignupValidate(req) ==
    IF ~req.json THEN [status |-> 415, body |-> Error("")]
    ELSE IF SignupDecode(req).err
    THEN [status |-> 400, body |-> Error("malformed json")]
    ELSE IF SignupMissingFields(req)
    THEN [status |-> 400, body |-> Error("missing fields")]
    ELSE IF ParseAddress(req.email).err
    THEN [status |-> 400, body |-> Error("missing fields")]
    ELSE IF DecodeString(req.invite_code).err
    THEN [status |-> 400, body |-> Error("missing fields")]
    ELSE [status |-> 0, body |-> Error("")]

\* Validation, argon.HashEncoded and db.Begin.  A hashing error writes a 500 and
\* the handler goes on with an empty hash.
handleSignup(p, req, hashErr) ==
    /\ Accept(p)
    /\ LET v == SignupValidate(req) IN
       IF v.status # 0
       THEN /\ last' = Response("signup", 0, req, v.status, v.body)
            /\ UNCHANGED procs
       ELSE /\ procs' = [procs EXCEPT ![p] =
                           [op |-> "signup", req |-> req,
                            status |-> IF hashErr THEN 500 ELSE 0,
                            pc |-> "begun", lastID |-> 0,
                            inviteCodeBlob |-> DecodeString(req.invite_code).bytes,
                            encoded |-> IF hashErr THEN EmptyHash
                                        ELSE HashEncoded(req.password)]]
            /\ UNCHANGED last
    /\ UNCHANGED <<now, users, sessions, invite_codes, wishlist, rowSeq, issued,
                   patchOk, signupLog,
                   comments, commentSeq, run>>

RowsDeletedOk_Any(rowsDeleted) == TRUE
RowsDeletedOk(rowsDeleted) == rowsDeleted = 1

\* SQLite's length() of the strings of the model: strings.Repeat("A", n), alone
\* or before "@x", and the short strings.
Length(str) ==
    CASE str = "A*499" -> 499
      [] str = "A*500" -> 500
      [] str = "A*500@x" -> 502
      [] OTHER -> 5

UsersConstraintViolated_Never(first_name, last_name, email) == FALSE
\* The constraints of table users: CHECK(length(...) < 500) on first_name,
\* last_name and email, and email UNIQUE (NOT NULL holds of every string).
UsersConstraintViolated(first_name, last_name, email) ==
    \/ ~(Length(first_name) < 500)
    \/ ~(Length(last_name) < 500)
    \/ ~(Length(email) < 500)
    \/ \E u \in users : u.email = email

\* DELETE FROM invite_codes WHERE invite_code = ?; INSERT INTO users ...
\* The DELETE takes the write lock, waiting for it.
handleSignupExec(p) ==
    /\ procs[p].op = "signup"
    /\ procs[p].pc = "begun"
    /\ CanReserve(p)
    /\ LET rowsDeleted ==
              Cardinality({c \in invite_codes : c.invite_code = procs[p].inviteCodeBlob})
       IN  IF ~RowsDeletedOk(rowsDeleted)
           THEN Finish(p, Response("signup", 0, procs[p].req,
                                   WriteHeader(procs[p].status, 400), Error("bad invite code")))
           ELSE IF UsersConstraintViolated(procs[p].req.first, procs[p].req.last,
                                           procs[p].req.email)
           THEN Finish(p, Response("signup", 0, procs[p].req,
                                   WriteHeader(procs[p].status, 500), Error("error adding user")))
           ELSE /\ procs' = [procs EXCEPT ![p].pc = "commit"]
                /\ UNCHANGED last
    /\ UNCHANGED <<now, users, sessions, invite_codes, wishlist, rowSeq, issued,
                   patchOk, signupLog,
                   comments, commentSeq, run>>

DeleteInviteCode_Keep(rows, inviteCodeBlob) == rows
DeleteInviteCode(rows, inviteCodeBlob) == {c \in rows : c.invite_code # inviteCodeBlob}

NewUser_SwapNames(lastID, req, encoded) ==
    [id |-> lastID, last_name |-> req.first, first_name |-> req.last, email |-> req.email,
     password_hash |-> encoded]
NewUser(lastID, req, encoded) ==
    [id |-> lastID, last_name |-> req.last, first_name |-> req.first, email |-> req.email,
     password_hash |-> encoded]

\* tx.Commit(): the code is gone and the user is stored, together.
handleSignupCommit(p) ==
    /\ procs[p].op = "signup"
    /\ procs[p].pc = "commit"
    /\ CanCommit(p)
    /\ LET lastID == Cardinality(users) + 1 IN
       /\ invite_codes' = DeleteInviteCode(invite_codes, procs[p].inviteCodeBlob)
       /\ users' = users \cup {NewUser(lastID, procs[p].req, procs[p].encoded)}
       /\ signupLog' = signupLog \cup {<<procs[p].inviteCodeBlob, lastID>>}
       /\ procs' = [procs EXCEPT ![p].pc = "session", ![p].lastID = lastID]
    /\ UNCHANGED <<now, sessions, wishlist, rowSeq, issued, last, patchOk,
                   comments, commentSeq, run>>

\* createSession and the response.  insertErr: the INSERT INTO sessions fails.
handleSignupSession(p, insertErr) ==
    /\ procs[p].op = "signup"
    /\ procs[p].pc = "session"
    /\ IF insertErr
       THEN /\ Finish(p, Response("signup", procs[p].lastID, procs[p].req,
                                  WriteHeader(procs[p].status, 500),
                                  Error("error creating session")))
            /\ UNCHANGED <<sessions, issued>>
       ELSE /\ CanWrite
            /\ sessions' = sessions \cup {NewSession(NewToken, procs[p].lastID)}
            /\ issued' = [issued EXCEPT !.tokens = NewToken]
            /\ Finish(p, Response("signup", procs[p].lastID, procs[p].req,
                                  Returned(procs[p].status),
                                  [last |-> procs[p].req.last,
                                   cookie |-> IF procs[p].status = 0
                                              THEN SessionCookie(NewToken) ELSE NoSetCookie,
                                   id |-> procs[p].lastID, first |-> procs[p].req.first]))
    /\ UNCHANGED <<now, users, invite_codes, wishlist, rowSeq, patchOk, signupLog,
                   comments, commentSeq, run>>

\* The state after initDb: every table empty.
Init ==
    /\ now = 0
    /\ users = {}
    /\ sessions = {}
    /\ invite_codes = {}
    /\ wishlist = {}
    /\ rowSeq = 0
    /\ issued = [tokens |-> 0, codes |-> 0]
    /\ procs = [p \in Procs |-> Idle]
    /\ last = NoResponse
    /\ patchOk = [k \in (0..MaxRows) \X (0..MaxSeq) |-> 0]
    /\ signupLog = {}
    /\ comments = {}
    /\ commentSeq = 0
    /\ run = Serving

SignupEmails == {"joe@x", "ann@x"}

SignupRequest(json, first, email, code) ==
    [last |-> "cool", json |-> json, first |-> first, password |-> "pw1", email |-> email,
     invite_code |-> code, wellFormed |-> TRUE, extra |-> {}]

\* The requests that pass validation, and one request for each way of failing it:
\* a Content-Type other than application/json, a missing field, an email that is
\* not an address, an invite code that is not base64.
InvalidSignupRequests ==
    { SignupRequest(FALSE, "joe", "joe@x", EncodeToString(1)),
      SignupRequest(TRUE, "", "joe@x", EncodeToString(1)),
      SignupRequest(TRUE, "joe", "not an address", EncodeToString(1)),
      SignupRequest(TRUE, "joe", "joe@x", CookieBad) }

SignupRequests ==
    {SignupRequest(TRUE, "joe", e, EncodeToString(c)) : e \in SignupEmails, c \in 1..MaxCodes}
    \cup InvalidSignupRequests

Next ==
    \/ GenerateInviteCode
    \/ \E p \in Procs, req \in SignupRequests, hashErr \in BOOLEAN :
          handleSignup(p, req, hashErr)
    \/ \E p \in Procs : handleSignupExec(p)
    \/ \E p \in Procs : handleSignupCommit(p)
    \/ \E p \in Procs, insertErr \in BOOLEAN : handleSignupSession(p, insertErr)

Spec == Init /\ [][Next]_vars

\* Signup as the clock runs past the expiry of the stored codes, with one request
\* for each way the body can fail validation after the Content-Type check.  The
\* faults of hashing and of the session INSERT are those of Spec, not repeated.
ValidSignup == SignupRequest(TRUE, "joe", "joe@x", EncodeToString(1))

RejectedSignupRequests ==
    { [ValidSignup EXCEPT !.wellFormed = FALSE],
      [ValidSignup EXCEPT !.extra = {"admin"}],
      [ValidSignup EXCEPT !.first = ""],
      [ValidSignup EXCEPT !.last = ""],
      [ValidSignup EXCEPT !.email = ""],
      [ValidSignup EXCEPT !.password = ""],
      [ValidSignup EXCEPT !.invite_code = CookieNone],
      [ValidSignup EXCEPT !.email = "not an address"],
      [ValidSignup EXCEPT !.invite_code = CookieBad] }

InviteSignupRequests ==
    {SignupRequest(TRUE, "joe", "joe@x", EncodeToString(c)) : c \in 1..MaxCodes}
    \cup RejectedSignupRequests

NextInvite ==
    \/ GenerateInviteCode
    \/ \E d \in {1, maxAgeHours} : Tick(d)
    \/ \E p \in Procs, req \in InviteSignupRequests : handleSignup(p, req, FALSE)
    \/ \E p \in Procs : handleSignupExec(p)
    \/ \E p \in Procs : handleSignupCommit(p)
    \/ \E p \in Procs : handleSignupSession(p, FALSE)

SpecInvite == Init /\ [][NextInvite]_vars

\* Signup against the constraints of table users: the valid request under each
\* stored code (so that a registered email comes again), the names and the email
\* of 500 characters, and a name of 499.
ConstraintSignupRequests ==
    {SignupRequest(TRUE, "joe", "joe@x", EncodeToString(c)) : c \in 1..MaxCodes}
    \cup { [ValidSignup EXCEPT !.first = "A*500"],
           [ValidSignup EXCEPT !.last = "A*500"],
           [ValidSignup EXCEPT !.email = "A*500@x"],
           [ValidSignup EXCEPT !.first = "A*499", !.email = "ann@x"] }

NextUsers ==
    \/ GenerateInviteCode
    \/ \E p \in Procs, req \in ConstraintSignupRequests : handleSignup(p, req, FALSE)
    \/ \E p \in Procs : handleSignupExec(p)
    \/ \E p \in Procs : handleSignupCommit(p)
    \/ \E p \in Procs : handleSignupSession(p, FALSE)

SpecUsers == Init /\ [][NextUsers]_vars

\* Every endpoint that reads a JSON body, sent by the two logged-in users with
\* Content-Type application/json or another one (field json of the request).
\* PATCH requests carry the header too, which handleWishlistPatch never reads.
PatchRequestWithHeader(json, id, seq, b) ==
    [id |-> id, seq |-> seq, description |-> b.description, source |-> b.source,
     cost |-> b.cost, owner_notes |-> b.owner_notes, buyer_notes |-> b.buyer_notes,
     json |-> json]

NextContentType ==
    \/ \E p \in Procs, json \in BOOLEAN :
          handleSessionPost(p, [json |-> json, password |-> "pw1", email |-> "joe@x"], FALSE)
    \/ \E p \in Procs :
          handleSignup(p, SignupRequest(FALSE, "joe", "nobody@x", EncodeToString(1)), FALSE)
    \/ \E p \in Procs, c \in SessionCookies, json \in BOOLEAN, b \in PostBodies :
          handleWishlistPost(p, [cookie |-> c, body |-> b, json |-> json])
    \/ \E p \in Procs : handleWishlistPostCommit(p)
    \/ \E p \in Procs, c \in SessionCookies, json \in BOOLEAN :
          handleWishlistDelete(p, [cookie |-> c, json |-> json, ids |-> {1}])
    \/ \E p \in Procs : handleWishlistDeleteExec(p)
    \/ \E p \in Procs : handleWishlistDeleteCommit(p)
    \/ \E p \in Procs, c \in SessionCookies, json \in BOOLEAN, seq \in 1..MaxSeq,
          b \in BuyerBodies :
          handleWishlistPatch(p, c, PatchRequestWithHeader(json, 1, seq, b))
    \/ \E p \in Procs : handleWishlistPatchExec(p)
    \/ \E p \in Procs : handleWishlistPatchCommit(p)
    \/ \E p \in Procs, c \in SessionCookies :
          handleCommentPost(p, CommentRequest(c, FALSE, 1, "nice"))
    \/ \E p \in Procs, c \in SessionCookies :
          handleCommentDelete(p, [cookie |-> c, id |-> 1, json |-> FALSE])

SpecContentType == InitPatch /\ [][NextContentType]_vars

-----------------------------------------------------------------------------
(* func run: interrupt and shutdown *)

\* signal.NotifyContext: the interrupt signal cancels ctx.
Interrupt ==
    /\ ~run.returned
    /\ run.ctx = "live"
    /\ run' = [run EXCEPT !.ctx = "done"]
    /\ UNCHANGED <<now, users, sessions, invite_codes, wishlist, rowSeq, issued, procs,
                   last, patchOk, signupLog, comments, commentSeq>>

\* The first goroutine of the wait group, past <-ctx.Done(): Shutdown marks the
\* server as shutting down and closes its listeners.
Shutdown ==
    /\ ~run.returned
    /\ run.ctx = "done"
    /\ run.httpServer = "serving"
    /\ run' = [run EXCEPT !.httpServer = "inShutdown", !.elapsed = 0]
    /\ UNCHANGED <<now, users, sessions, invite_codes, wishlist, rowSeq, issued, procs,
                   last, patchOk, signupLog, comments, commentSeq>>

\* context.WithTimeout(shutdownCtx, 10*time.Second)
DeadlineExceeded_Never(elapsed) == FALSE
DeadlineExceeded(elapsed) == elapsed >= shutdownTimeout

\* Shutdown's loop: it returns nil once no connection serves a request, returns
\* the context's error once the deadline has passed, and otherwise waits; then
\* the goroutine's deferred wg.Done() runs.
ShutdownPoll ==
    /\ ~run.returned
    /\ run.httpServer = "inShutdown"
    /\ IF (\A p \in Procs : procs[p] = Idle) \/ DeadlineExceeded(run.elapsed)
       THEN run' = [run EXCEPT !.httpServer = "shutdown", !.wg = @ - 1]
       ELSE run' = [run EXCEPT !.elapsed = @ + 1]
    /\ UNCHANGED <<now, users, sessions, invite_codes, wishlist, rowSeq, issued, procs,
                   last, patchOk, signupLog, comments, commentSeq>>

\* The second goroutine of the wait group, past <-ctx.Done(): grpcServer.Stop()
\* closes the admin socket and its connections, then wg.Done().
GrpcStop ==
    /\ ~run.returned
    /\ run.ctx = "done"
    /\ run.grpcServer = "serving"
    /\ run' = [run EXCEPT !.grpcServer = "stopped", !.wg = @ - 1]
    /\ UNCHANGED <<now, users, sessions, invite_codes, wishlist, rowSeq, issued, procs,
                   last, patchOk, signupLog, comments, commentSeq>>

\* wg.Wait() returns, run returns nil and main returns: the process ends.
RunReturn ==
    /\ ~run.returned
    /\ run.wg = 0
    /\ run' = [run EXCEPT !.returned = TRUE]
    /\ UNCHANGED <<now, users, sessions, invite_codes, wishlist, rowSeq, issued, procs,
                   last, patchOk, signupLog, comments, commentSeq>>

InitRun ==
    /\ now = 0
    /\ users = TestUsers
    /\ sessions = {[session_cookie |-> u.id, id |-> u.id, expiry_time |-> maxAgeHours]
                   : u \in TestUsers}
    /\ invite_codes = {}
    /\ wishlist = {}
    /\ rowSeq = 0
    /\ issued = [tokens |-> 2, codes |-> 0]
    /\ procs = [p \in Procs |-> Idle]
    /\ last = NoResponse
    /\ patchOk = [k \in (0..MaxRows) \X (0..MaxSeq) |-> 0]
    /\ signupLog = {<<u.id, u.id>> : u \in TestUsers}
    /\ comments = {}
    /\ commentSeq = 0
    /\ run = Serving

\* A request is accepted while the listeners are open and an admin call while
\* the admin server serves; a request in flight takes its next step while the
\* process lives.
NextRun ==
    \/ \E p \in Procs, c \in WishlistCookies, b \in PostBodies :
          handleWishlistPost(p, [cookie |-> c, body |-> b, json |-> TRUE])
    \/ \E p \in Procs : ~run.returned /\ handleWishlistPostCommit(p)
    \/ GenerateInviteCode
    \/ Interrupt
    \/ Shutdown
    \/ ShutdownPoll
    \/ GrpcStop
    \/ RunReturn

SpecRun == InitRun /\ [][NextRun]_vars

\* The Go scheduler runs every goroutine that can run and the timer of the
\* context fires: the steps of run are taken when they stay possible.  Nothing
\* is assumed of the requests, which may stay in flight for ever.
SpecRunFair ==
    /\ SpecRun
    /\ WF_vars(Shutdown)
    /\ WF_vars(ShutdownPoll)
    /\ WF_vars(GrpcStop)
    /\ WF_vars(RunReturn)

-----------------------------------------------------------------------------
(* Properties of PATCH, GET and DELETE on the wishlist *)

PatchColumns == {"description", "source", "cost", "owner_notes", "buyer_notes"}

RowById(rows, id) == CHOOSE r \in rows : r.id = id

\* The step in which request p, having reached position pc, returns.
Returns(p, op, pc) == procs[p].op = op /\ procs[p].pc = pc /\ procs'[p] = Idle

\* C1: of the PATCH requests that carry the same seq for the same row, at most one
\* responds 200 (patchOk counts the 200 responses per row and seq); the request
\* that responds 200 finds the row at its seq s and leaves it at s+1 with exactly
\* its own fields set, every other column as stored before, so no field of a
\* racing request is applied.
C1_AtMostOnePatchPerSeq ==
    /\ [](\A k \in DOMAIN patchOk : patchOk[k] <= 1)
    /\ [][\A p \in Procs :
            Returns(p, "wishlist_patch", "commit") =>
               LET req == procs[p].req IN
               /\ last'.status = 200
               /\ \E r \in wishlist : r.id = req.id /\ r.sequence_number = req.seq
               /\ \E r \in wishlist' : r.id = req.id
               /\ LET before == RowById(wishlist, req.id)
                      after == RowById(wishlist', req.id)
                  IN  /\ after.sequence_number = req.seq + 1
                      /\ \A c \in PatchColumns :
                            after[c] = IF req[c] # NULL THEN req[c] ELSE before[c]
                      /\ wishlist' \ {after} = wishlist \ {before}]_vars

\* Two PATCH requests of different users raced on the same row and seq: both
\* passed the seq check, one holds the write lock, the other has been answered.
C1_Witness ==
    /\ last.op = "wishlist_patch"
    /\ last.status = 500
    /\ \E p \in Procs :
          /\ procs[p].op = "wishlist_patch"
          /\ procs[p].pc = "commit"
          /\ procs[p].req.id = last.req.id
          /\ procs[p].req.seq = last.req.seq
          /\ procs[p].user # last.user

\* C2: a PATCH that passed the seq and role checks (it raced with another PATCH on
\* the same seq) responds 200, or 409 carrying the now-current seq s+1; it never
\* ends with another status.
C2_RaceLoserGetsConflict ==
    [][\A p \in Procs :
          (procs[p].op = "wishlist_patch" /\ procs'[p] = Idle) =>
              \/ last'.status = 200
              \/ /\ last'.status = 409
                 /\ last'.body.server_seq = procs[p].req.seq + 1]_vars

\* C6: a DELETE that lists a row of another user responds 401 and removes no row;
\* and whenever rows disappear from the table, they are rows that the DELETE
\* request returning in that step listed and that its requester owns.
C6_DeleteAllOrNothing ==
    [][/\ \A r \in wishlist \ wishlist' :
             \E p \in Procs :
                /\ Returns(p, "wishlist_delete", "commit")
                /\ r.user_id = procs[p].user
                /\ r.id \in procs[p].req.ids
       /\ ( /\ last' # last
            /\ last'.op = "wishlist_delete"
            /\ \E r \in wishlist : r.id \in last'.req.ids /\ r.user_id # last'.user )
          => (last'.status = 401 /\ wishlist' = wishlist)]_vars

\* A DELETE by a signed-in user listing one of their rows and a row of another
\* user was refused.
C6_Witness ==
    /\ last.op = "wishlist_delete"
    /\ last.status = 401
    /\ last.user # 0
    /\ \E r \in wishlist : r.id \in last.req.ids /\ r.user_id = last.user
    /\ \E r \in wishlist : r.id \in last.req.ids /\ r.user_id # last.user


\* C35: a wishlist DELETE that reaches its COMMIT responds 200 and removes every
\* listed row of the requester and nothing else, whether or not other listed ids
\* name no row; and a DELETE by a signed-in user is refused with 401 only when a
\* listed id names a row of another user.
C35_MissingIdsDoNotBlock ==
    [][/\ \A p \in Procs :
             Returns(p, "wishlist_delete", "commit")
                => /\ last'.status = 200
                   /\ wishlist' = {r \in wishlist :
                                     ~(r.id \in procs[p].req.ids /\ r.user_id = procs[p].user)}
       /\ ( /\ last' # last
            /\ last'.op = "wishlist_delete"
            /\ last'.user # 0
            /\ last'.req.json
            /\ \A r \in wishlist : r.id \in last'.req.ids => r.user_id = last'.user )
          => \/ last'.status = 200
             \/ /\ last'.status = 500
                /\ last'.body = Error("database is locked")]_vars

\* A DELETE listing an id that was assigned to a row and an id that never was has
\* been answered 200, and no listed row is stored.
C35_Witness ==
    /\ last.op = "wishlist_delete"
    /\ last.status = 200
    /\ \E i \in last.req.ids : i <= rowSeq
    /\ \E i \in last.req.ids : i > rowSeq
    /\ \A r \in wishlist : r.id \notin last.req.ids


\* C36: the step in which a POST /api/wishlist returns adds exactly one row, under
\* an id no stored row has, owned by the user its session cookie authenticates,
\* with buyer_notes null, and responds 200 with that id; every row stored before
\* is stored unchanged; and no other step stores a row under a new id.
C36_PostAddsOneOwnRow ==
    [][/\ \A p \in Procs :
             Returns(p, "wishlist_post", "commit")
                => /\ last'.status = 200
                   /\ \E n \in wishlist' \ wishlist :
                         /\ wishlist' = wishlist \cup {n}
                         /\ \A r \in wishlist : r.id # n.id
                         /\ n.user_id = authenticateUser(procs[p].req.cookie).id
                         /\ n.user_id # 0
                         /\ n.buyer_notes = NULL
                         /\ last'.body = [id |-> n.id]
       /\ \A n \in wishlist' :
             (\A r \in wishlist : r.id # n.id)
                => \E p \in Procs : Returns(p, "wishlist_post", "commit")]_vars

\* A POST has returned the id of a new row of its requester with no buyer notes,
\* while a row of another user that carries buyer notes is stored.
C36_Witness ==
    /\ last.op = "wishlist_post"
    /\ last.status = 200
    /\ \E n \in wishlist :
          /\ n.id = last.body.id
          /\ n.user_id = last.user
          /\ n.buyer_notes = NULL
    /\ \E r \in wishlist :
          /\ r.user_id # last.user
          /\ r.buyer_notes # NULL

\* C7: a GET whose target user is the requester returns every entry with
\* buyer_notes null, whatever the stored value.
TargetUser(resp) == IF resp.req.userId[1] = "absent" THEN resp.user ELSE resp.req.userId[2]

C7_OwnerNeverSeesBuyerNotes ==
    ( /\ last.op = "wishlist_get"
      /\ last.status = 200
      /\ TargetUser(last) = last.user )
    => \A e \in last.body.entries : e.buyer_notes = NULL

\* The owner fetched their list after a non-owner had patched buyer notes onto
\* one of its rows.
C7_Witness ==
    /\ last.op = "wishlist_get"
    /\ last.status = 200
    /\ TargetUser(last) = last.user
    /\ last.body.entries # {}
    /\ \E r \in wishlist : r.user_id = last.user /\ r.buyer_notes # NULL

-----------------------------------------------------------------------------
(* Properties of PATCH: roles, the sequence number gate, frame and failures *)

OwnerColumns == {"description", "source", "cost", "owner_notes"}

\* The request carries a field its requester may not set on row r, or no field
\* its requester may set.
RoleInvalid(req, userId, r) ==
    IF r.user_id = userId
    THEN req.buyer_notes # NULL \/ \A c \in OwnerColumns : req[c] = NULL
    ELSE req.buyer_notes = NULL \/ \E c \in OwnerColumns : req[c] # NULL

\* A response to a PATCH of an authenticated requester is written in this step.
PatchResponds ==
    last' # last /\ last'.op = "wishlist_patch" /\ last'.user # 0

\* C11: a row's description, source, cost and owner_notes change only in the
\* step in which a PATCH of the row's owner returns, and its buyer_notes only in
\* the step in which a PATCH of another user returns; a PATCH that carries a field
\* its requester's role may not set, or none it may set, never responds 200,
\* changes nothing, and is answered 400 when it reaches the role check (the row
\* is stored at the request's seq).
C11_RolesGuardColumns ==
    /\ [][\A r \in wishlist, r2 \in wishlist' :
             r.id = r2.id =>
                /\ (\E c \in OwnerColumns : r2[c] # r[c])
                      => \E p \in Procs :
                            /\ Returns(p, "wishlist_patch", "commit")
                            /\ procs[p].req.id = r.id
                            /\ procs[p].user = r.user_id
                /\ (r2.buyer_notes # r.buyer_notes)
                      => \E p \in Procs :
                            /\ Returns(p, "wishlist_patch", "commit")
                            /\ procs[p].req.id = r.id
                            /\ procs[p].user \notin {0, r.user_id}]_vars
    /\ [][PatchResponds =>
             \A r \in wishlist :
                (r.id = last'.req.id /\ RoleInvalid(last'.req, last'.user, r))
                   => /\ last'.status # 200
                      /\ wishlist' = wishlist
                      /\ (r.sequence_number = last'.req.seq) => last'.status = 400]_vars

\* A non-owner's PATCH that carried a description next to its buyer notes, at the
\* row's current seq, was answered 400.
C11_Witness ==
    /\ last.op = "wishlist_patch"
    /\ last.status = 400
    /\ last.body = Error("non-owner can only edit buyer notes")
    /\ last.req.buyer_notes # NULL
    /\ \E r \in wishlist :
          /\ r.id = last.req.id
          /\ r.user_id # last.user
          /\ r.sequence_number = last.req.seq

\* C12: a PATCH whose seq is not the sequence number stored for the row it names
\* responds 409, the body carries the request's seq and the stored one, and no
\* row changes.
C12_StaleSeqConflict ==
    [][PatchResponds =>
          \A r \in wishlist :
             ( /\ r.id = last'.req.id
               /\ last'.req.seq # 0
               /\ r.sequence_number # last'.req.seq )
             => /\ last'.status = 409
                /\ last'.body.client_seq = last'.req.seq
                /\ last'.body.server_seq = r.sequence_number
                /\ wishlist' = wishlist]_vars

\* A PATCH re-sent the seq that an earlier PATCH of the same row had used with
\* success, and was answered 409.
C12_Witness ==
    /\ last.op = "wishlist_patch"
    /\ last.status = 409
    /\ patchOk[<<last.req.id, last.req.seq>>] = 1
    /\ \E r \in wishlist : r.id = last.req.id /\ r.sequence_number = last.req.seq + 1

\* The value a 200 PATCH leaves in column c of row r.
Patched(req, r, c) == IF req[c] = NULL THEN r[c] ELSE req[c]

\* C13: the step in which a PATCH returns 200 replaces the row r it names, stored
\* at sequence number s, by a row with the same id and owner, sequence number
\* s + 1, the request's value in every column the request carries and r's value
\* in every other column; all other rows stay as they are.
C13_PatchFrame ==
    [][\A p \in Procs :
          (Returns(p, "wishlist_patch", "commit") /\ last'.status = 200) =>
             \E r \in wishlist :
                /\ r.id = procs[p].req.id
                /\ wishlist' = (wishlist \ {r}) \cup
                      {[id |-> r.id,
                        sequence_number |-> r.sequence_number + 1,
                        description |-> Patched(procs[p].req, r, "description"),
                        source |-> Patched(procs[p].req, r, "source"),
                        cost |-> Patched(procs[p].req, r, "cost"),
                        owner_notes |-> Patched(procs[p].req, r, "owner_notes"),
                        buyer_notes |-> Patched(procs[p].req, r, "buyer_notes"),
                        user_id |-> r.user_id]}]_vars

\* A PATCH that carried no description returned 200 and the row, now one
\* sequence number further, still has its description.
C13_Witness ==
    /\ last.op = "wishlist_patch"
    /\ last.status = 200
    /\ last.req.description = NULL
    /\ \E r \in wishlist :
          /\ r.id = last.req.id
          /\ r.sequence_number = last.req.seq + 1
          /\ r.description # NULL

\* The number of 200 responses to PATCH requests for row id carrying a seq of at
\* most s.
RECURSIVE PatchCount(_, _)
PatchCount(id, s) ==
    IF s = 0 THEN patchOk[<<id, 0>>] ELSE patchOk[<<id, s>>] + PatchCount(id, s - 1)

\* C14: a row enters the table with sequence number 1; no step lowers a row's
\* sequence number; a step changes it only by adding 1, and exactly when a PATCH
\* of that row returns 200; so every stored row's sequence number is 1 plus the
\* number of 200 PATCH responses for it.
C14_SequenceNumberCounts ==
    /\ [](\A r \in wishlist : r.sequence_number = 1 + PatchCount(r.id, MaxSeq))
    /\ [][/\ \A r2 \in wishlist' :
                (\A r \in wishlist : r.id # r2.id) => r2.sequence_number = 1
          /\ \A r \in wishlist, r2 \in wishlist' :
                r.id = r2.id =>
                   LET patched == \E p \in Procs :
                                     /\ Returns(p, "wishlist_patch", "commit")
                                     /\ procs[p].req.id = r.id
                                     /\ last'.status = 200
                   IN  /\ r2.sequence_number >= r.sequence_number
                       /\ patched => r2.sequence_number = r.sequence_number + 1
                       /\ ~patched => r2.sequence_number = r.sequence_number]_vars

\* Two rows have been created and one of them has been patched as many times as
\* the largest seq allows.
C14_Witness ==
    /\ rowSeq >= 2
    /\ \E r \in wishlist :
          /\ r.sequence_number = MaxSeq + 1
          /\ PatchCount(r.id, MaxSeq) = MaxSeq

\* C15: the step in which a PATCH is answered with a status other than 200
\* leaves the wishlist table as it was; and the table changes only in the step in
\* which a PATCH returns 200, to a row that has every column of the request
\* written, so no partly written row is ever stored.
C15_FailedPatchChangesNothing ==
    [][/\ (last' # last /\ last'.op = "wishlist_patch" /\ last'.status # 200)
             => wishlist' = wishlist
       /\ (wishlist' # wishlist)
             => \E p \in Procs :
                   /\ Returns(p, "wishlist_patch", "commit")
                   /\ last'.status = 200
                   /\ \A r2 \in wishlist' \ wishlist :
                         \A c \in PatchColumns :
                            procs[p].req[c] # NULL => r2[c] = procs[p].req[c]]_vars

\* A PATCH was answered 500 and the row it named is still at the request's seq
\* without the request's values.
C15_Witness ==
    /\ last.op = "wishlist_patch"
    /\ last.status = 500
    /\ \E r \in wishlist :
          /\ r.id = last.req.id
          /\ r.sequence_number = last.req.seq
          /\ \E c \in PatchColumns : last.req[c] # NULL /\ r[c] # last.req[c]

\* C16: a PATCH of an authenticated requester with id 0 or seq 0 is answered 400
\* "missing id or seq" in the step that accepts it (no transaction is begun),
\* whatever its other fields, its requester and the stored rows.
C16_MissingIdOrSeqRejected ==
    /\ [](\A u \in users, id \in 0..MaxRows, seq \in 0..MaxSeq, b \in PatchBodies :
             (id = 0 \/ seq = 0)
                => PatchCheck(u.id, PatchRequest(id, seq, b))
                      = [status |-> 400, body |-> Error("missing id or seq")])
    /\ [][(PatchResponds /\ (last'.req.id = 0 \/ last'.req.seq = 0))
             => /\ last'.status = 400
                /\ last'.body = Error("missing id or seq")
                /\ procs' = procs
                /\ wishlist' = wishlist]_vars

\* A PATCH naming a stored row with seq 0 was answered 400.
C16_Witness ==
    /\ last.op = "wishlist_patch"
    /\ last.status = 400
    /\ last.user # 0
    /\ last.req.seq = 0
    /\ \E r \in wishlist : r.id = last.req.id

\* C17: a PATCH of an authenticated requester with non-zero id and seq, naming an
\* id that no stored row has, is answered 404 and changes nothing.
C17_MissingRowNotFound ==
    [][( /\ PatchResponds
         /\ last'.req.id # 0
         /\ last'.req.seq # 0
         /\ \A r \in wishlist : r.id # last'.req.id )
       => (last'.status = 404 /\ wishlist' = wishlist)]_vars

\* C18: a bulk DELETE that commits without removing a row (no listed id names a
\* stored row) is answered 404.
C18_DeleteNothingNotFound ==
    [][\A p \in Procs :
          ( /\ Returns(p, "wishlist_delete", "commit")
            /\ \A r \in wishlist : r.id \notin procs[p].req.ids )
          => last'.status = 404]_vars


\* The row a PATCH in flight has looked up is stored.
PatchedRowStored(p) == \E r \in wishlist : r.id = procs[p].req.id

C32_SeqBeforeRole ==
    [][PatchResponds =>
          \A r \in wishlist :
             ( /\ r.id = last'.req.id
               /\ last'.req.seq # 0
               /\ r.sequence_number # last'.req.seq
               /\ RoleInvalid(last'.req, last'.user, r) )
             => /\ last'.status = 409
                /\ last'.status # 400
                /\ last'.body.error = "client seq does not match server seq, try again"]_vars

\* The row's owner sent buyer notes under a seq that is not the row's, and was
\* answered 409.
C32_Witness ==
    /\ last.op = "wishlist_patch"
    /\ last.status = 409
    /\ last.req.buyer_notes # NULL
    /\ \E r \in wishlist :
          /\ r.id = last.req.id
          /\ r.user_id = last.user
          /\ r.sequence_number # last.req.seq

-----------------------------------------------------------------------------
(* Properties of comments *)

\* The user owns the wishlist row with this id.
OwnsRow(userId, rowId) == \E r \in wishlist : r.id = rowId /\ r.user_id = userId

\* C23: no comment's author is the owner of the row the comment is attached to;
\* a well-formed comment POST by an authenticated user on a row of their own is
\* answered 401 in the step that accepts it and leaves the comments as they were,
\* so that no such request is ever in flight; and a row keeps its owner.
C23_NoSelfComment ==
    /\ [](\A c \in comments : ~OwnsRow(c.user_id, c.wishlist_item_id))
    /\ [](\A p \in Procs :
             procs[p].op = "comment_post" => ~OwnsRow(procs[p].user, procs[p].req.id))
    /\ [][/\ ( /\ last' # last
               /\ last'.op = "comment_post"
               /\ last'.user # 0
               /\ last'.req.json
               /\ last'.req.comment # ""
               /\ OwnsRow(last'.user, last'.req.id) )
             => /\ last'.status = 401
                /\ comments' = comments
                /\ procs' = procs
          /\ \A r \in wishlist : \A r2 \in wishlist' :
                r.id = r2.id => r.user_id = r2.user_id]_vars

\* A user's comment on their own row was refused while the row carries another
\* user's comment.
C23_Witness ==
    /\ last.op = "comment_post"
    /\ last.status = 401
    /\ last.body = Error("can't comment on your own wishlist")
    /\ OwnsRow(last.user, last.req.id)
    /\ \E c \in comments : c.wishlist_item_id = last.req.id

\* C24: a step in which a comment DELETE completes removes no comment but the one
\* its request names, and that one only if the requester is its author; no
\* other kind of step removes a comment, except the cascade of a wishlist DELETE
\* on the comments of the rows it removes.
C24_OnlyAuthorDeletes ==
    [][/\ \A p \in Procs :
             Returns(p, "comment_delete", "commit")
                => /\ comments' \subseteq comments
                   /\ \A c \in comments \ comments' :
                         c.id = procs[p].req.id /\ c.user_id = procs[p].user
       /\ \A c \in comments \ comments' :
             \E p \in Procs :
                \/ Returns(p, "comment_delete", "commit")
                \/ /\ Returns(p, "wishlist_delete", "commit")
                   /\ c.wishlist_item_id \in procs[p].req.ids]_vars

\* A comment DELETE by a user who is not the author of the comment it names has
\* completed and the comment is still stored.
C24_Witness ==
    /\ last.op = "comment_delete"
    /\ last.user # 0
    /\ last.req.json
    /\ \E c \in comments : c.id = last.req.id /\ c.user_id # last.user

\* C25: a comment DELETE by an authenticated user that matches no row (no comment
\* has the id, or the requester is not its author) is answered 401.
C25_DeleteNothingUnauthorized ==
    [][\A p \in Procs :
          ( /\ Returns(p, "comment_delete", "commit")
            /\ \A c \in comments :
                  ~(c.id = procs[p].req.id /\ c.user_id = procs[p].user) )
          => last'.status = 401]_vars


\* C33: every stored comment references a stored wishlist row.
C33_CommentsReferenceRows ==
    \A c \in comments : \E r \in wishlist : r.id = c.wishlist_item_id

-----------------------------------------------------------------------------
(* Properties of signup and invite codes *)

\* The invite codes that a committed signup has consumed.
Consumed == {e[1] : e \in signupLog}

Responded200 ==
    {e[1] : e \in {x \in signupLog :
                     /\ \E u \in users : u.id = x[2] /\ u.password_hash # EmptyHash
                     /\ \E s \in sessions : s.id = x[2]}}

C4_OneUserPerCode ==
    \A c \in Consumed : Cardinality({e \in signupLog : e[1] = c}) <= 1

\* Two signups with different emails presented the same code at the same time:
\* one has committed its user and is still creating its session, the other has
\* been refused.
C4_Witness ==
    /\ last.op = "signup"
    /\ last.status = 400
    /\ last.body = Error("bad invite code")
    /\ \E p \in Procs :
          /\ procs[p].op = "signup"
          /\ procs[p].pc = "session"
          /\ procs[p].req.invite_code = last.req.invite_code
          /\ procs[p].req.email # last.req.email

\* C5: a signup that does not respond 200 has not consumed an invite code: a
\* request that returns with another status has not committed the deletion of
\* its code (it never reached createSession, which follows the COMMIT).
C5_FailedSignupKeepsCode ==
    [][\A p \in Procs :
          (procs[p].op = "signup" /\ procs'[p] = Idle /\ last'.status # 200)
             => /\ procs[p].pc # "session"
                /\ invite_codes' = invite_codes]_vars

\* The code a signup in flight presents is stored and its expiry time has passed.
PresentsExpiredCode(p) ==
    \E c \in invite_codes :
       /\ c.invite_code = procs[p].inviteCodeBlob
       /\ c.expiry_time < now

\* C19: a signup that passed validation without fault and presents a stored
\* invite code whose expiry time has passed is answered 400 when its transaction
\* runs, and no user and no session is stored for it.
C19_ExpiredCodeRejected ==
    [][\A p \in Procs :
          ( /\ procs[p].op = "signup"
            /\ procs[p].pc = "begun"
            /\ procs[p].status = 0
            /\ procs'[p] # procs[p]
            /\ PresentsExpiredCode(p) )
          => /\ procs'[p] = Idle
             /\ last'.status = 400
             /\ users' = users
             /\ sessions' = sessions]_vars

\* The bodies C20 names: malformed, with an unknown field, lacking one of the
\* five fields, or with an email that is not an address.
BadSignupBody(req) ==
    \/ ~req.wellFormed
    \/ req.extra # {}
    \/ "" \in {req.first, req.last, req.email, req.password}
    \/ req.invite_code = CookieNone
    \/ req.email = "not an address"

\* C20: a signup sent as JSON whose body is malformed, has an unknown field,
\* lacks first, last, email, password or invite_code, or whose email is not an
\* address, is answered 400 in the step that accepts it, with users, sessions and
\* invite codes as they were; no such request ever enters the transaction.
C20_BadSignupRejected ==
    [][/\ ( /\ last' # last
            /\ last'.op = "signup"
            /\ last'.req.json
            /\ BadSignupBody(last'.req) )
          => /\ last'.status = 400
             /\ users' = users
             /\ sessions' = sessions
             /\ invite_codes' = invite_codes
             /\ procs' = procs
       /\ \A p \in Procs :
             procs'[p].op = "signup" => ~BadSignupBody(procs'[p].req)]_vars

\* A body with an unknown field was answered 400 while the invite code it
\* presents is stored, and no user exists.
C20_Witness ==
    /\ last.op = "signup"
    /\ last.status = 400
    /\ last.req.extra # {}
    /\ users = {}
    /\ \E c \in invite_codes : EncodeToString(c.invite_code) = last.req.invite_code

\* The user insert of a signup request breaks a constraint of table users.
BreaksUsersConstraint(req) ==
    \/ req.first = "A*500"
    \/ req.last = "A*500"
    \/ req.email = "A*500@x"
    \/ \E u \in users : u.email = req.email

\* The invite code a signup in flight presents is stored.
PresentsStoredCode(p) ==
    \E c \in invite_codes : c.invite_code = procs[p].inviteCodeBlob

\* C21: when the transaction of a signup presenting a stored invite code runs and
\* its user insert breaks a constraint of table users (email registered; first
\* name, last name or email of 500 characters or more), the signup is answered
\* 500 and users, sessions and invite codes stay as they were; otherwise it goes
\* on to commit.  No two stored users share an email and none has a field of 500
\* characters or more.
C21_ConstraintViolationRejected ==
    /\ [](\A u1, u2 \in users : u1.email = u2.email => u1 = u2)
    /\ [](\A u \in users :
             Length(u.first_name) < 500 /\ Length(u.last_name) < 500
                /\ Length(u.email) < 500)
    /\ [][\A p \in Procs :
             ( /\ procs[p].op = "signup"
               /\ procs[p].pc = "begun"
               /\ procs'[p] # procs[p]
               /\ PresentsStoredCode(p) )
             => IF BreaksUsersConstraint(procs[p].req)
                THEN /\ procs'[p] = Idle
                     /\ last'.status = 500
                     /\ last'.req = procs[p].req
                     /\ users' = users
                     /\ sessions' = sessions
                     /\ invite_codes' = invite_codes
                ELSE procs'[p].pc = "commit"]_vars

\* A signup with a registered email and a stored invite code was answered 500,
\* its invite code is still stored, and every session belongs to the user
\* registered before.
C21_Witness ==
    /\ last.op = "signup"
    /\ last.status = 500
    /\ last.body = Error("error adding user")
    /\ Cardinality(users) = 1
    /\ \E u \in users : u.email = last.req.email
    /\ \E c \in invite_codes : EncodeToString(c.invite_code) = last.req.invite_code
    /\ \A p \in Procs : procs[p] = Idle

\* The user row a signup request describes, under id.
IsUserOf(u, id, req) ==
    /\ u.id = id
    /\ u.first_name = req.first
    /\ u.last_name = req.last
    /\ u.email = req.email

\* C22: the users stored are as many as the invite codes generated and no longer
\* stored (a code is gone exactly when a user was stored for it); every step that
\* changes users or removes an invite code removes exactly the code of one signup
\* and stores exactly one user with that request's first name, last name and
\* email; and a signup that responds 200 has removed its code, stored that user,
\* stored a session for the user's id in its last step and returns the user's
\* id, first and last name.
C22_SignupAtomic ==
    /\ [](Cardinality(users) = issued.codes - Cardinality(invite_codes))
    /\ [][/\ (users' # users \/ ~(invite_codes \subseteq invite_codes'))
             => \E p \in Procs :
                   /\ procs[p].op = "signup"
                   /\ procs[p].pc = "commit"
                   /\ invite_codes \ invite_codes' =
                         {c \in invite_codes : c.invite_code = procs[p].inviteCodeBlob}
                   /\ Cardinality(invite_codes \ invite_codes') = 1
                   /\ invite_codes' \subseteq invite_codes
                   /\ users \subseteq users'
                   /\ Cardinality(users' \ users) = 1
                   /\ \A u \in users' \ users : IsUserOf(u, procs'[p].lastID, procs[p].req)
          /\ ( /\ last' # last
               /\ last'.op = "signup"
               /\ last'.status = 200 )
             => /\ \A c \in invite_codes' :
                      EncodeToString(c.invite_code) # last'.req.invite_code
                /\ \E u \in users' : IsUserOf(u, last'.user, last'.req)
                /\ Cardinality(sessions' \ sessions) = 1
                /\ \A n \in sessions' \ sessions : n.id = last'.user
                /\ last'.body.id = last'.user
                /\ last'.body.first = last'.req.first
                /\ last'.body.last = last'.req.last]_vars

\* A signup has responded 200 and returned its session cookie while another
\* invite code is still stored.
C22_Witness ==
    /\ last.op = "signup"
    /\ last.status = 200
    /\ last.body.cookie # NoSetCookie
    /\ \E u \in users : IsUserOf(u, last.user, last.req)
    /\ \E n \in sessions : n.id = last.user
    /\ invite_codes # {}
    /\ \A c \in invite_codes : EncodeToString(c.invite_code) # last.req.invite_code

-----------------------------------------------------------------------------
(* Properties of login, logout and the auth gate *)

UnknownEmail(req) == \A u \in users : u.email # req.email

WrongPassword(req) ==
    \E u \in users : u.email = req.email /\ u.password_hash # HashEncoded(req.password)

LoginRequests ==
    {[json |-> TRUE, password |-> pw, email |-> e] :
        e \in LoginEmails \ {""}, pw \in LoginPasswords \ {""}}

\* C8: a login naming an unknown email and a login naming a user with a wrong
\* password get the same status, 401, and the same body; and a login of either
\* kind stores no session and sets no cookie.
C8_LoginFailuresIndistinguishable ==
    /\ [](\A r1, r2 \in LoginRequests :
             (UnknownEmail(r1) /\ WrongPassword(r2))
                => /\ LoginCheck(r1).status = 401
                   /\ LoginCheck(r2).status = LoginCheck(r1).status
                   /\ LoginCheck(r2).body = LoginCheck(r1).body)
    /\ [][( /\ last' # last
            /\ last'.op = "login"
            /\ last'.req \in LoginRequests
            /\ UnknownEmail(last'.req) \/ WrongPassword(last'.req) )
          => /\ last'.status = 401
             /\ last'.body = Error("invalid username or password")
             /\ sessions' = sessions]_vars

\* A login with an existing user's email and a wrong password was refused.
C8_Witness ==
    /\ last.op = "login"
    /\ last.status = 401
    /\ WrongPassword(last.req)
    /\ last.req.password # ""

\* The stored sessions that a Cookie header names and that have not expired.
LiveSessions(cookie) ==
    {s \in sessions : cookie = EncodeToString(s.session_cookie) /\ ~(s.expiry_time < now)}

\* C9: a request to a protected route is served (200) with the user id of the
\* session row its cookie names when that row exists and its expiry is not before
\* the current time; every other request (no cookie, malformed cookie, unknown
\* token, expired session) gets 401 and the handler does not run.
C9_AuthGate ==
    [][(last' # last /\ last'.op = "session_get")
          => IF LiveSessions(last'.req.cookie) # {}
             THEN /\ last'.status = 200
                  /\ \A s \in LiveSessions(last'.req.cookie) :
                        last'.user = s.id /\ last'.body.id = s.id
             ELSE /\ last'.status = 401
                  /\ last'.user = 0]_vars

\* A request presenting the token of a stored session whose expiry has passed
\* was rejected.
C9_Witness ==
    /\ last.op = "session_get"
    /\ last.status = 401
    /\ \E s \in sessions :
          /\ last.req.cookie = EncodeToString(s.session_cookie)
          /\ s.expiry_time < last.at

StoredTokens(rows) == {s.session_cookie : s \in rows}

C34_LogoutOnlyOwnSession ==
    [][(last' # last /\ last'.op = "logout")
          => /\ sessions' \subseteq sessions
             /\ Cardinality(sessions \ sessions') <= 1
             /\ \A s \in sessions :
                   last'.req.cookie # EncodeToString(s.session_cookie)
                      => /\ s \in sessions'
                         /\ ~SessionExpired(s.expiry_time)
                               => authenticateUser(EncodeToString(s.session_cookie))'.status = 0
             /\ users' = users
             /\ wishlist' = wishlist
             /\ invite_codes' = invite_codes]_vars

\* A logout presenting the token of a session it removed has completed, and
\* another session, created by a second login, is stored and not expired.
C34_Witness ==
    /\ last.op = "logout"
    /\ \E t \in (1..issued.tokens) \ StoredTokens(sessions) :
          last.req.cookie = EncodeToString(t)
    /\ \E s \in sessions :
          /\ last.req.cookie # EncodeToString(s.session_cookie)
          /\ ~SessionExpired(s.expiry_time)
          /\ authenticateUser(EncodeToString(s.session_cookie)).status = 0

\* The response sets the session cookie.
SetsCookie(resp) ==
    /\ resp.status = 200
    /\ resp.op \in {"login", "signup"}
    /\ resp.body.cookie # NoSetCookie

\* C26: every step that stores a session stores exactly one, under a token that
\* rand.Read had not produced before and that no stored session carries, with
\* expiry 7 * 24 hours after the instant of the step; and a response that sets
\* the session cookie comes from a step that stored a session, and its cookie
\* carries the token and the expiry of that session.
C26_SessionAndCookieAgree ==
    [][/\ \A n \in sessions' \ sessions :
             /\ sessions' \ sessions = {n}
             /\ n.session_cookie \notin 1..issued.tokens
             /\ \A s \in sessions : s.session_cookie # n.session_cookie
             /\ n.expiry_time = now + 7 * 24
       /\ (last' # last /\ SetsCookie(last'))
             => \E n \in sessions' \ sessions :
                   /\ last'.body.cookie.value = EncodeToString(n.session_cookie)
                   /\ last'.body.cookie.expires = n.expiry_time]_vars

\* A login a session lifetime after another has set its cookie: two sessions are
\* stored with different expiry times, and the cookie carries those of the newer.
C26_Witness ==
    /\ SetsCookie(last)
    /\ last.at > 0
    /\ \E s \in sessions :
          /\ last.body.cookie.value = EncodeToString(s.session_cookie)
          /\ last.body.cookie.expires = s.expiry_time
          /\ s.expiry_time = last.at + 7 * 24
    /\ \E s \in sessions : s.expiry_time < last.at + 7 * 24

\* C27: a protected request leaves the sessions as they are; no step changes the
\* expiry of a stored session, which is never later than 7 * 24 hours after the
\* current time; and a protected request presenting the token of a stored session
\* whose expiry is before the current time is answered 401.
C27_NoRefreshOnUse ==
    /\ [](\A s \in sessions : s.expiry_time <= now + 7 * 24)
    /\ [][/\ (last' # last /\ last'.op = "session_get") => sessions' = sessions
          /\ \A s \in sessions : \A s2 \in sessions' :
                s.session_cookie = s2.session_cookie => s2.expiry_time = s.expiry_time
          /\ \A s \in sessions :
                ( /\ last' # last
                  /\ last'.op = "session_get"
                  /\ last'.req.cookie = EncodeToString(s.session_cookie)
                  /\ s.expiry_time < now )
                => last'.status = 401 /\ last'.user = 0]_vars

\* A session created at 0 has just been used at the last instant it is valid, and
\* its expiry is still that instant.
C27_Witness ==
    /\ last.op = "session_get"
    /\ last.status = 200
    /\ last.at = 7 * 24
    /\ \E s \in sessions :
          /\ last.req.cookie = EncodeToString(s.session_cookie)
          /\ s.expiry_time = last.at


\* C29: every stored session belongs to a stored user, and a session is stored
\* only by the step that answers 200 to a login or a signup of that user: a
\* login with that user's email and the password of the stored hash, or a signup
\* that stored the user.
C29_SessionsOnlyAfterSuccess ==
    /\ [](\A s \in sessions : \E u \in users : u.id = s.id)
    /\ [][\A n \in sessions' \ sessions :
             /\ last' # last
             /\ last'.op \in {"login", "signup"}
             /\ last'.status = 200
             /\ last'.user = n.id
             /\ \E u \in users' :
                   /\ u.id = n.id
                   /\ u.email = last'.req.email
                   /\ u.password_hash = HashEncoded(last'.req.password)]_vars


\* C30: no stored user has the hash of a failed hashing, and a signup whose
\* password hashing failed is answered 500 without storing a user, consuming an
\* invite code or storing a session.
C30_HashFailureStoresNothing ==
    /\ [](\A u \in users : u.password_hash # EmptyHash)
    /\ [][\A p \in Procs :
             ( /\ procs[p].op = "signup"
               /\ procs[p].encoded = EmptyHash
               /\ procs'[p] # procs[p] )
             => /\ users' = users
                /\ invite_codes' = invite_codes
                /\ sessions' = sessions
                /\ procs'[p] = Idle => last'.status = 500]_vars

-----------------------------------------------------------------------------
(* Properties of the Content-Type check *)

\* The endpoints that read a JSON body.
JsonBodyOps ==
    {"login", "signup", "wishlist_post", "wishlist_patch", "wishlist_delete",
     "comment_post", "comment_delete"}

\* C28: a request to an endpoint that reads a JSON body, sent with a valid session
\* where one is required and with a Content-Type other than application/json,
\* is answered 415 in the step that accepts it, with every table as it was; no
\* such request is ever in flight.
C28_NonJsonRejected ==
    [][/\ ( /\ last' # last
            /\ last'.op \in JsonBodyOps
            /\ ~last'.req.json )
          => /\ last'.status = 415
             /\ procs' = procs
             /\ <<users, sessions, invite_codes, wishlist, comments>>' =
                   <<users, sessions, invite_codes, wishlist, comments>>
       /\ \A p \in Procs : procs'[p] # Idle => procs'[p].req.json]_vars


-----------------------------------------------------------------------------
(* Properties of shutdown *)

\* C37: once the interrupt has cancelled the context, run returns; from the
\* moment Shutdown has closed the listeners no request is accepted (a request
\* slot that is free stays free and a response comes only from a request in
\* flight); Shutdown waits no longer than shutdownTimeout seconds; and the
\* admin server takes no call once stopped.
C37_InterruptEndsRun ==
    /\ (run.ctx = "done") ~> run.returned
    /\ [](run.elapsed <= shutdownTimeout)
    /\ [][/\ run.httpServer # "serving"
             => /\ \A p \in Procs : procs[p] = Idle => procs'[p] = Idle
                /\ last' # last => \E p \in Procs : procs[p] # Idle /\ procs'[p] = Idle
          /\ (run.grpcServer # "serving" \/ run.returned)
             => invite_codes' = invite_codes
          /\ run.returned => (procs' = procs /\ wishlist' = wishlist)]_vars

\* run has returned after Shutdown waited shutdownTimeout seconds for a request
\* that is still in flight.
C37_Witness ==
    /\ run.returned
    /\ run.elapsed = shutdownTimeout
    /\ \E p \in Procs : procs[p] # Idle

====
